---- MODULE Spec2Model ----
(***************************************************************************)
(* session-rag: the transcript parser (src/src/parser.ts), the embedding   *)
(* batcher (embedder.ts), the storage layer (db/index.ts), the ingest      *)
(* command (cli.ts) and the two ranking queries, as one state machine.     *)
(*                                                                         *)
(* A JavaScript string is a sequence of one-character strings, so that     *)
(* .length, .slice, .trim and the regular expressions are computed on the  *)
(* characters.                                                             *)
(***************************************************************************)
EXTENDS Integers, Sequences, FiniteSets, TLC

\* ------------------------------------------------------------------------
\* Characters and strings
\* ------------------------------------------------------------------------

\* the backtick character
BQ == "bq"

Range(f) == {f[x] : x \in DOMAIN f}

Min(S) == CHOOSE x \in S : \A y \in S : x <= y

Max(S) == CHOOSE x \in S : \A y \in S : y <= x

Rep(c, n) == [x \in 1..n |-> c]

Digit == <<"0", "1", "2", "3", "4", "5", "6", "7", "8", "9">>

\* \w of a JavaScript regular expression
WordChars ==
    Range(<<"a", "b", "c", "d", "e", "f", "g", "h", "i", "j", "k", "l", "m",
            "n", "o", "p", "q", "r", "s", "t", "u", "v", "w", "x", "y", "z">>)
    \cup
    Range(<<"A", "B", "C", "D", "E", "F", "G", "H", "I", "J", "K", "L", "M",
            "N", "O", "P", "Q", "R", "S", "T", "U", "V", "W", "X", "Y", "Z">>)
    \cup Range(Digit) \cup {"_"}

IsWord(c) == c \in WordChars

\* \s of a JavaScript regular expression
IsSpace(c) == c \in {" ", "\n", "\t", "\r"}

\* the character classes of the patterns: \w, \s, [\w\-./], [^`], [^"], [^/], \W
InClass(class, c) ==
    CASE class = "word" -> IsWord(c)
      [] class = "space" -> IsSpace(c)
      [] class = "path" -> IsWord(c) \/ c \in {"-", ".", "/"}
      [] class = "notBackquote" -> c # BQ
      [] class = "notQuote" -> c # "\""
      [] class = "notSlash" -> c # "/"
      [] class = "notWord" -> ~IsWord(c)

\* The index after the longest run of characters of the class that starts at
\* index from: what a greedy class* consumes.
RECURSIVE RunEnd(_, _, _)
RunEnd(s, from, class) ==
    IF from > Len(s) \/ ~InClass(class, s[from]) THEN from ELSE RunEnd(s, from + 1, class)

StartsWithAt(s, p, lit) ==
    /\ p + Len(lit) - 1 <= Len(s)
    /\ \A x \in 1..Len(lit) : s[p + x - 1] = lit[x]

\* String.prototype.includes
Includes(s, lit) == \E p \in 1..Len(s) : StartsWithAt(s, p, lit)

\* The index before the longest run of characters of the class that ends at
\* index to.
RECURSIVE RunStart(_, _, _)
RunStart(s, to, class) ==
    IF to < 1 \/ ~InClass(class, s[to]) THEN to ELSE RunStart(s, to - 1, class)

\* String.prototype.trim
Trim(s) == SubSeq(s, RunEnd(s, 1, "space"), RunStart(s, Len(s), "space"))

RECURSIVE Digits(_)
Digits(n) == IF n < 10 THEN <<Digit[n + 1]>> ELSE Digits(n \div 10) \o <<Digit[(n % 10) + 1]>>

\* ------------------------------------------------------------------------
\* JSON values of a transcript record's fields
\* ------------------------------------------------------------------------

Undef == [t |-> "undefined", s |-> <<>>, n |-> 0]

Str(s) == [t |-> "string", s |-> s, n |-> 0]

Num(n) == [t |-> "number", s |-> <<>>, n |-> n]

\* JavaScript truthiness: undefined, '' and 0 are falsy
Truthy(v) == (v.t = "string" /\ Len(v.s) > 0) \/ (v.t = "number" /\ v.n # 0)

\* a || b
Or(a, b) == IF Truthy(a) THEN a ELSE b

\* the text a template literal `${v}` renders
ToStr(v) ==
    CASE v.t = "string" -> v.s
      [] v.t = "number" -> Digits(v.n)
      [] OTHER -> <<"u", "n", "d", "e", "f", "i", "n", "e", "d">>

\* ------------------------------------------------------------------------
\* parser.ts: extractContent
\* ------------------------------------------------------------------------

\* the tool output length above which extractContent truncates
MaxToolOutput == 1000

LitTool == <<"[", "T", "o", "o", "l", ":", " ">>

LitToolResult == <<"[", "T", "o", "o", "l", " ", "R", "e", "s", "u", "l", "t", ":", " ">>

LitEllipsis == <<".", ".", ".">>

\* output.slice(0, 1000) without the marker
truncatedOutputUnmarked(output) ==
    IF output.t = "string" /\ Len(output.s) > MaxToolOutput
    THEN Str(SubSeq(output.s, 1, MaxToolOutput))
    ELSE output

\* output.length > 1000 ? output.slice(0, 1000) + '...' : output
\* (the length of a number is undefined, and undefined > 1000 is false)
truncatedOutput(output) ==
    IF output.t = "string" /\ Len(output.s) > MaxToolOutput
    THEN Str(SubSeq(output.s, 1, MaxToolOutput) \o LitEllipsis)
    ELSE output

extractContent(message) ==
    CASE message.type = "user" ->
           [text |-> message.content, tools |-> <<>>, role |-> "user"]
      [] message.type = "assistant" ->
           [text |-> message.content, tools |-> <<>>, role |-> "assistant"]
      [] message.type = "tool_use" ->
           LET inputDesc == Or(Or(message.description, message.command), Str(<<>>))
           IN  [text |-> Str(Trim(LitTool \o ToStr(message.tool_name) \o <<"]", " ">>
                                  \o ToStr(inputDesc))),
                tools |-> <<message.tool_name>>,
                role |-> "tool"]
      [] message.type = "tool_result" ->
           LET output == Or(Or(message.output, message.preview), Str(<<>>))
           IN  [text |-> Str(Trim(LitToolResult \o ToStr(message.tool_name) \o <<"]", "\n">>
                                  \o ToStr(truncatedOutput(output)))),
                tools |-> <<message.tool_name>>,
                role |-> "tool"]
      [] OTHER -> [text |-> Str(<<>>), tools |-> <<>>, role |-> "system"]

\* ------------------------------------------------------------------------
\* parser.ts: extractFilePaths
\* ------------------------------------------------------------------------

NoMatch == [ok |-> FALSE, from |-> 0, to |-> 0, next |-> 0]

Match(from, to, next) == [ok |-> TRUE, from |-> from, to |-> to, next |-> next]

\* (?:^|\s) followed by the character first: the index of that character for
\* an attempt at p, 0 when neither alternative applies
Boundary(s, p, first) ==
    IF p = 1 /\ s[p] = first THEN p
    ELSE IF IsSpace(s[p]) /\ p + 1 <= Len(s) /\ s[p + 1] = first THEN p + 1
    ELSE 0

\* /(?:^|\s)(\/[\w\-./]+\.\w+)/ attempted at p: the greedy class backtracks to
\* the last "." that leaves it one character and is followed by a word
\* character
MatchAbsolute(s, p) ==
    LET q == Boundary(s, p, "/")
        r == RunEnd(s, q + 1, "path")
        dots == {k \in (q + 2)..(r - 2) : s[k] = "." /\ IsWord(s[k + 1])}
        e == RunEnd(s, Max(dots) + 1, "word")
    IN  IF q = 0 \/ dots = {} THEN NoMatch ELSE Match(q, e - 1, e)

\* /(?:^|\s)(\.\/[\w\-./]+)/ and /(?:^|\s)(~\/[\w\-./]+)/ attempted at p
MatchPrefixed(s, p, first) ==
    LET q == Boundary(s, p, first)
        r == RunEnd(s, q + 2, "path")
    IN  IF q = 0 \/ q + 1 > Len(s) \/ s[q + 1] # "/" \/ r = q + 2
        THEN NoMatch ELSE Match(q, r - 1, r)

\* /`([^`]+\.\w{1,5})`/ attempted at p: the capture runs to the next backtick,
\* and its last "." is followed by one to five word characters and nothing else
MatchBackquoted(s, p) ==
    LET r == RunEnd(s, p + 1, "notBackquote")
        dots == {k \in (p + 2)..(r - 2) : s[k] = "."}
        k == Max(dots)
    IN  IF s[p] # BQ \/ r > Len(s) \/ dots = {} THEN NoMatch
        ELSE IF r - 1 - k <= 5 /\ \A x \in (k + 1)..(r - 1) : IsWord(s[x])
        THEN Match(p + 1, r - 1, r + 1) ELSE NoMatch

LitFilePath == <<"\"", "f", "i", "l", "e", "P", "a", "t", "h", "\"", ":">>

\* /"filePath":\s*"([^"]+)"/ attempted at p
MatchFilePathField(s, p) ==
    LET b == RunEnd(s, p + Len(LitFilePath), "space")
        c == RunEnd(s, b + 1, "notQuote")
    IN  IF ~StartsWithAt(s, p, LitFilePath) \/ b > Len(s) \/ s[b] # "\"" THEN NoMatch
        ELSE IF c > b + 1 /\ c <= Len(s) THEN Match(b + 1, c - 1, c + 1) ELSE NoMatch

\* the five patterns of extractFilePaths, in the order of the source
NumPatterns == 5

MatchAt(k, s, p) ==
    CASE k = 1 -> MatchAbsolute(s, p)
      [] k = 2 -> MatchPrefixed(s, p, ".")
      [] k = 3 -> MatchPrefixed(s, p, "~")
      [] k = 4 -> MatchBackquoted(s, p)
      [] OTHER -> MatchFilePathField(s, p)

\* content.matchAll(pattern): the captures of the successive leftmost
\* matches, each search resuming where the previous match ended
RECURSIVE MatchAll(_, _, _)
MatchAll(k, s, p) ==
    LET starts == {q \in p..Len(s) : MatchAt(k, s, q).ok}
        m == MatchAt(k, s, Min(starts))
    IN  IF starts = {} THEN <<>>
        ELSE <<SubSeq(s, m.from, m.to)>> \o MatchAll(k, s, m.next)

LitHttp == <<"h", "t", "t", "p">>

LitDotCom == <<".", "c", "o", "m">>

\* file && !file.includes('http') && !file.startsWith('.com')
KeepFile(file) ==
    Len(file) > 0 /\ ~Includes(file, LitHttp) /\ ~StartsWithAt(file, 1, LitDotCom)

\* Set.prototype.add over a list: insertion order, first occurrence kept
RECURSIVE AddAll(_, _)
AddAll(files, more) ==
    IF more = <<>> THEN files
    ELSE AddAll(IF Head(more) \in Range(files) THEN files ELSE Append(files, Head(more)),
                Tail(more))

RECURSIVE CollectPatterns(_, _, _)
CollectPatterns(content, k, files) ==
    IF k > NumPatterns THEN files
    ELSE CollectPatterns(content, k + 1,
                         AddAll(files, SelectSeq(MatchAll(k, content, 1), KeepFile)))

extractFilePaths(content) == CollectPatterns(content, 1, <<>>)

\* ------------------------------------------------------------------------
\* parser.ts: parseSessionFile
\* ------------------------------------------------------------------------

\* the rendered-text length below which a record is skipped
MinTextLength == 10

\* !text
TooShortOnlyEmpty(text) == ~Truthy(text)

\* !text || text.length < 10   (the length of a number is undefined, and
\* undefined < 10 is false)
TooShort(text) == ~Truthy(text) \/ (text.t = "string" /\ Len(text.s) < MinTextLength)

\* Math.ceil(text.length / 4)
tokenCount(text) == (Len(text) + 3) \div 4

\* index: messages.length
NextIndexByLine(messages, k) == k - 1

NextIndex(messages, k) == Len(messages)

\* a catch that gives up the records read so far
SkipLineAndForget(acc) == [acc EXCEPT !.messages = <<>>]

\* catch { continue }: the line is skipped
SkipLine(acc) == acc

\* one iteration of the loop over the lines, on line k; acc holds messages,
\* firstTimestamp and lastTimestamp (0: undefined)
ParseLine(line, k, acc) ==
    IF line.json # "object"
    THEN SkipLine(acc)  \* JSON.parse throws, or parsed is null and parsed.timestamp throws
    ELSE
      LET tracked == IF line.timestamp # 0
                     THEN [acc EXCEPT !.firstTimestamp = IF @ = 0 THEN line.timestamp ELSE @,
                                      !.lastTimestamp = line.timestamp]
                     ELSE acc
          ec == extractContent(line)
      IN  IF TooShort(ec.text) \/ line.type = "tool_use" THEN tracked
          ELSE IF ec.text.t # "string"
          THEN SkipLine(tracked)  \* content.matchAll is not a function
          ELSE [tracked EXCEPT !.messages = Append(@,
                  [index |-> NextIndex(acc.messages, k),
                   role |-> ec.role,
                   content |-> ec.text.s,
                   timestamp |-> line.timestamp,
                   tokenCount |-> tokenCount(ec.text.s),
                   toolsUsed |-> ec.tools,
                   filesMentioned |-> extractFilePaths(ec.text.s)])]

RECURSIVE ParseLines(_, _, _)
ParseLines(lines, k, acc) ==
    IF k > Len(lines) THEN acc ELSE ParseLines(lines, k + 1, ParseLine(lines[k], k, acc))

ProjectDirs ==
    {<<"s", "r", "c">>, <<"a", "p", "p">>, <<"l", "i", "b">>,
     <<"n", "o", "d", "e", "_", "m", "o", "d", "u", "l", "e", "s">>}

\* /\/([^/]+)\/(?:src|app|lib|node_modules)/ attempted at p
MatchProject(s, p) ==
    LET r == RunEnd(s, p + 1, "notSlash")
    IN  IF s[p] = "/" /\ r > p + 1 /\ r <= Len(s)
           /\ \E d \in ProjectDirs : StartsWithAt(s, r + 1, d)
        THEN Match(p + 1, r - 1, r) ELSE NoMatch

\* firstPath.match(...): the capture of the leftmost match, Undef without one
ProjectOf(firstPath) ==
    LET starts == {p \in 1..Len(firstPath) : MatchProject(firstPath, p).ok}
        m == MatchProject(firstPath, Min(starts))
    IN  IF starts = {} THEN Undef ELSE Str(SubSeq(firstPath, m.from, m.to))

\* the loop that infers projectName, were it to try every reference
RECURSIVE projectNameOfAnyReference(_, _)
projectNameOfAnyReference(messages, k) ==
    IF k > Len(messages) THEN Undef
    ELSE LET files == messages[k].filesMentioned
             matching == {j \in DOMAIN files : Truthy(ProjectOf(files[j]))}
         IN  IF matching # {} THEN ProjectOf(files[Min(matching)])
             ELSE projectNameOfAnyReference(messages, k + 1)

\* the loop that infers projectName, from message k on
RECURSIVE projectName(_, _)
projectName(messages, k) ==
    IF k > Len(messages) THEN Undef
    ELSE LET files == messages[k].filesMentioned
         IN  IF Len(files) > 0 /\ Truthy(ProjectOf(files[1]))
             THEN ProjectOf(files[1])
             ELSE projectName(messages, k + 1)

RECURSIVE SumTokens(_)
SumTokens(messages) ==
    IF messages = <<>> THEN 0 ELSE Head(messages).tokenCount + SumTokens(Tail(messages))

Null == [ok |-> FALSE]

\* content.trim().split('\n').filter(Boolean): the empty lines are dropped
NonBlank(line) == line.json # "blank"

\* parseSessionFile(filePath), content being the lines the file holds
parseSessionFile(filePath, content) ==
    LET lines == SelectSeq(content, NonBlank)
        acc == ParseLines(lines, 1, [messages |-> <<>>, firstTimestamp |-> 0, lastTimestamp |-> 0])
    IN  IF Len(lines) = 0 THEN Null
        ELSE IF Len(acc.messages) = 0 THEN Null
        ELSE [ok |-> TRUE,
              sessionId |-> filePath.base,
              sourcePath |-> filePath,
              projectName |-> projectName(acc.messages, 1),
              createdAt |-> acc.firstTimestamp,
              updatedAt |-> acc.lastTimestamp,
              messages |-> acc.messages,
              totalTokens |-> SumTokens(acc.messages),
              totalCost |-> 0]

\* ------------------------------------------------------------------------
\* Transcript lines
\* ------------------------------------------------------------------------

Line(json, type, timestamp, content, tool_name, description, command, output, preview) ==
    [json |-> json, type |-> type, timestamp |-> timestamp, content |-> content,
     tool_name |-> tool_name, description |-> description, command |-> command,
     output |-> output, preview |-> preview]

Message(type, timestamp, content) ==
    Line("object", type, timestamp, content, Undef, Undef, Undef, Undef, Undef)

ToolUse(timestamp, tool_name, description, command) ==
    Line("object", "tool_use", timestamp, Undef, tool_name, description, command, Undef, Undef)

ToolResult(timestamp, tool_name, output, preview) ==
    Line("object", "tool_result", timestamp, Undef, tool_name, Undef, Undef, output, preview)

\* an empty line
BlankLine == Line("blank", "", 0, Undef, Undef, Undef, Undef, Undef, Undef)

\* a line JSON.parse rejects
MalformedLine == Line("malformed", "", 0, Undef, Undef, Undef, Undef, Undef, Undef)

\* the line "null"
NullLine == Line("null", "", 0, Undef, Undef, Undef, Undef, Undef, Undef)

\* nine characters, and ten
TxtShort == <<"t", "o", "o", " ", "s", "h", "o", "r", "t">>

TxtTen == <<"t", "e", "n", " ", "c", "h", "a", "r", "s", "!">>

TxtPlease ==
    <<"P", "l", "e", "a", "s", "e", " ", "r", "e", "a", "d", " ", "c", "o", "n", "f", "i",
      "g", ".", "t", "s", " ", "f", "o", "r", " ", "m", "e">>

TxtEdit ==
    <<"E", "d", "i", "t", " ", "/", "w", "/", "m", "y", "a", "p", "p", "/", "s", "r", "c",
      "/", "a", ".", "t", "s", " ", "n", "o", "w">>

TxtMixed ==
    <<BQ, "b", ".", "t", "s", BQ, " ", "t", "h", "e", "n", " ", "/", "r", "/", "l", "i",
      "b", "/", "a", ".", "t", "s">>

\* a path twice, and between its occurrences a path below a project
TxtTwice ==
    <<"/", "e", "t", "c", "/", "h", ".", "t", "s", " ", "/", "w", "/", "p", "r", "o", "j",
      "/", "l", "i", "b", "/", "b", ".", "t", "s", " ", "/", "e", "t", "c", "/", "h", ".",
      "t", "s">>

TxtList == <<"l", "i", "s", "t", " ", "t", "h", "e", " ", "f", "i", "l", "e", "s">>

TxtOk ==
    <<"o", "k", " ", "/", "w", "/", "m", "y", "a", "p", "p", "/", "s", "r", "c", "/", "a",
      ".", "t", "s">>

TxtSummary ==
    <<"A", " ", "s", "u", "m", "m", "a", "r", "y", " ", "o", "f", " ", "t", "h", "e", " ",
      "s", "e", "s", "s", "i", "o", "n">>

Bash == Str(<<"B", "a", "s", "h">>)

Read == Str(<<"R", "e", "a", "d">>)

\* The transcript lines the parser is checked on: every record kind, texts on
\* both sides of the length filter and of the truncation length, with and
\* without a timestamp, and the lines that do not parse.
Lines ==
    {BlankLine, MalformedLine, NullLine,
     Message("user", 1, Str(TxtShort)),
     Message("user", 0, Str(TxtTen)),
     Message("user", 1, Str(TxtPlease)),
     Message("user", 2, Num(1234567890)),
     Message("assistant", 2, Str(TxtEdit)),
     Message("assistant", 0, Str(TxtMixed)),
     Message("assistant", 0, Str(TxtTwice)),
     Message("summary", 3, Str(TxtSummary)),
     ToolUse(2, Bash, Str(TxtList), Undef),
     ToolResult(3, Read, Str(TxtOk), Str(TxtList)),
     ToolResult(3, Read, Undef, Str(TxtList)),
     ToolResult(3, Read, Undef, Undef),
     ToolResult(4, Bash, Str(Rep("x", MaxToolOutput)), Undef),
     ToolResult(4, Bash, Str(Rep("x", MaxToolOutput + 1)), Undef)}

\* the longest transcript
MaxLines == 3

RECURSIVE SeqsUpTo(_, _)
SeqsUpTo(S, n) ==
    IF n = 0 THEN {<<>>}
    ELSE LET shorter == SeqsUpTo(S, n - 1)
         IN  shorter \cup {Append(q, x) : q \in {z \in shorter : Len(z) = n - 1}, x \in S}

Path(dir, base) == [dir |-> dir, base |-> base]

\* ------------------------------------------------------------------------
\* State
\* ------------------------------------------------------------------------

VARIABLES
    transcript,     \* the lines of the file handed to parseSessionFile
    parsed,         \* what parseSessionFile returned
    batch,          \* the locals of the embedBatch call in progress
    requests,       \* the embed() requests that are outstanding
    history,        \* per call of embedBatch: what was requested, answered, written
    returned,       \* what the caller of embedBatch received
    disk,           \* the transcript files: path -> lines
    sessions,       \* the rows of table sessions
    chunks,         \* the rows of table chunks
    pool,           \* whether the shared pg.Pool is open
    run,            \* the command in progress: its options, locals and position
    log,            \* per file of the run: its outcome and what was written for it
    ingested,       \* per session id: the transcript last ingested, and how often
    found           \* the last search: its arguments and the rows returned

parseVars == <<transcript, parsed>>

batchVars == <<batch, requests, history>>

storeVars == <<sessions, chunks>>

ingestVars == <<disk, pool, run, log, ingested>>

vars ==
    <<transcript, parsed, batch, requests, history, returned, disk, sessions, chunks,
      pool, run, log, ingested, found>>

\* ------------------------------------------------------------------------
\* embedder.ts: embed, embedBatch
\* ------------------------------------------------------------------------

\* the vectors the embedding service answers with; all have norm 5
Embeddings == {<<5, 0>>, <<4, 3>>}

\* an empty slot of new Array(n); chunk.embedding when it was never assigned
NoVector == <<>>

\* concurrency = 5 when the caller passes none
DefaultConcurrency == 5

NoBatch ==
    [call |-> 0, status |-> "idle", texts |-> <<>>, concurrency |-> DefaultConcurrency,
     i |-> 0, results |-> <<>>, completed |-> 0]

NoHistory == [issued |-> <<>>, obtained |-> <<>>, writers |-> <<>>, failed |-> {}, order |-> <<>>]

\* results[i + j]
SlotIgnoringWindow(i, j) == j

Slot(i, j) == i + j

\* texts.slice(i, i + concurrency).map(...): one embed() per text of the window
Window(b) ==
    {[call |-> b.call, i |-> b.i, j |-> j] :
        j \in 0..(IF b.i + b.concurrency < Len(b.texts) THEN b.concurrency
                  ELSE Len(b.texts) - b.i) - 1}

\* the head of the for loop with i set: the next window is dispatched and
\* awaited, or the loop is over and results is returned
AtLoopHead(b) ==
    IF b.i < Len(b.texts) THEN [b EXCEPT !.status = "awaiting"]
    ELSE [b EXCEPT !.status = "resolved"]

Dispatched(b) == IF b.i < Len(b.texts) THEN Window(b) ELSE {}

\* the calls of embed() of batch b that have not completed
Outstanding(b, reqs) == {r \in reqs : r.call = b.call}

\* Promise.all(batchPromises) when a promise of the window rejects
RejectedIgnored(b) == b

Rejected(b) == [b EXCEPT !.status = "rejected"]

\* await Promise.all(batchPromises) resumes with the completion of r: r was
\* the last request of the window outstanding, and none has failed
WindowSettledOnFirst(b, reqs, r) == b.status = "awaiting"

WindowSettled(b, reqs, r) == b.status = "awaiting" /\ Outstanding(b, reqs) = {r}

\* i += concurrency, once Promise.all(batchPromises) has resolved
NextWindow(b) == AtLoopHead([b EXCEPT !.i = @ + b.concurrency])

\* embedBatch(texts, {concurrency}) up to its first await
embedBatch(call, texts, concurrency) ==
    AtLoopHead([call |-> call, status |-> "running", texts |-> texts,
                concurrency |-> concurrency, i |-> 0,
                results |-> [k \in 1..Len(texts) |-> NoVector], completed |-> 0])

NewHistory(texts) ==
    [issued |-> [k \in 1..Len(texts) |-> 0],
     obtained |-> [k \in 1..Len(texts) |-> NoVector],
     writers |-> [k \in 1..Len(texts) |-> <<>>],
     failed |-> {},
     order |-> <<>>]

\* a call identifier no outstanding request carries
NewCall(reqs) == Min({n \in 1..(Cardinality(reqs) + 1) : \A r \in reqs : r.call # n})

Issue(h, reqs) ==
    [h EXCEPT !.issued = [k \in DOMAIN @ |->
        @[k] + Cardinality({r \in reqs : r.i + r.j + 1 = k})]]

\* The request r is answered with a vector: the callback stores it and
\* counts it; when it was the last of its window, Promise.all resolves and
\* the loop goes on to the next window before anything else runs.
RequestSucceeds(r, embedding) ==
    /\ r \in requests
    /\ IF r.call = batch.call
       THEN LET slot == Slot(r.i, r.j) + 1
                stored == [batch EXCEPT !.results = IF slot \in DOMAIN @
                                                    THEN [@ EXCEPT ![slot] = embedding]
                                                    ELSE @,
                                        !.completed = @ + 1]
                last == WindowSettled(batch, requests, r)
                after == IF last THEN NextWindow(stored) ELSE stored
                more == IF last THEN Dispatched(after) ELSE {}
            IN  /\ batch' = after
                /\ requests' = (requests \ {r}) \cup more
                /\ history' = Issue([history EXCEPT
                                       !.obtained[r.i + r.j + 1] = embedding,
                                       !.order = Append(@, r.i + r.j),
                                       !.writers = IF slot \in DOMAIN @
                                                   THEN [@ EXCEPT ![slot] = Append(@, r.i + r.j)]
                                                   ELSE @],
                                    more)
       ELSE /\ requests' = requests \ {r}
            /\ UNCHANGED <<batch, history>>

\* The request r fails (fetch rejects, or the response is not ok): embed()
\* throws, Promise.all rejects on the first such promise, and so does the
\* call of embedBatch; the other requests of the window stay outstanding.
RequestFails(r) ==
    /\ r \in requests
    /\ requests' = requests \ {r}
    /\ batch' = IF r.call = batch.call /\ batch.status = "awaiting"
                THEN Rejected(batch) ELSE batch
    /\ history' = IF r.call = batch.call
                  THEN [history EXCEPT !.failed = @ \cup {r.i + r.j},
                                       !.order = Append(@, r.i + r.j)]
                  ELSE history

\* before any search
NoSearch ==
    [mode |-> "none", embedding |-> <<>>, keyword |-> <<>>, limit |-> 0, roleFilter |-> "",
     rank |-> <<>>, rows |-> <<>>]

\* ------------------------------------------------------------------------
\* db/index.ts: upsertSession, insertChunks
\* ------------------------------------------------------------------------

\* ON CONFLICT (session_id) DO UPDATE SET ...: every column of the statement
\* but created_at, and ingested_at = NOW()
UpdatedSession(old, s, time) ==
    [old EXCEPT !.source_path = s.source_path,
                !.project_name = s.project_name,
                !.updated_at = s.updated_at,
                !.message_count = s.message_count,
                !.total_tokens = s.total_tokens,
                !.total_cost = s.total_cost,
                !.metadata = s.metadata,
                !.ingested_at = time]

InsertedSession(s, id, time) ==
    [id |-> id, session_id |-> s.session_id, source_path |-> s.source_path,
     project_name |-> s.project_name, created_at |-> s.created_at,
     updated_at |-> s.updated_at, message_count |-> s.message_count,
     total_tokens |-> s.total_tokens, total_cost |-> s.total_cost,
     metadata |-> s.metadata, ingested_at |-> time]

\* the rows of sessions after upsertSession(s); id is the identifier a new
\* row takes
upsertSession(rows, s, id, time) ==
    IF \E old \in rows : old.session_id = s.session_id
    THEN {IF old.session_id = s.session_id THEN UpdatedSession(old, s, time) ELSE old :
            old \in rows}
    ELSE rows \cup {InsertedSession(s, id, time)}

\* RETURNING id
ReturnedId(rows, session_id) == (CHOOSE row \in rows : row.session_id = session_id).id

\* ON CONFLICT (session_id, chunk_index) DO UPDATE SET ...: role and
\* created_at are not among the columns
UpdatedChunk(old, c) ==
    [old EXCEPT !.content = c.content,
                !.embedding = c.embedding,
                !.token_count = c.token_count,
                !.tools_used = c.tools_used,
                !.files_mentioned = c.files_mentioned,
                !.metadata = c.metadata]

InsertedChunk(c, id) ==
    [id |-> id, session_id |-> c.session_id, chunk_index |-> c.chunk_index,
     role |-> c.role, content |-> c.content, embedding |-> c.embedding,
     token_count |-> c.token_count, tools_used |-> c.tools_used,
     files_mentioned |-> c.files_mentioned, created_at |-> c.created_at,
     metadata |-> c.metadata]

SameKey(row, c) == row.session_id = c.session_id /\ row.chunk_index = c.chunk_index

\* INSERT INTO chunks ... with no ON CONFLICT clause and no unique key
insertChunksAlwaysInserts(rows, new, id) ==
    rows \cup {InsertedChunk(new[k], id + k - 1) : k \in 1..Len(new)}

\* the rows of chunks after insertChunks(new); the k-th new row takes the
\* identifier id + k - 1
insertChunks(rows, new, id) ==
    {IF \E k \in 1..Len(new) : SameKey(old, new[k])
     THEN UpdatedChunk(old, new[CHOOSE k \in 1..Len(new) : SameKey(old, new[k])])
     ELSE old : old \in rows}
    \cup {InsertedChunk(new[k], id + k - 1) :
            k \in {x \in 1..Len(new) : ~\E old \in rows : SameKey(old, new[x])}}

\* gen_random_uuid(): an identifier no row of the table carries; the k-th row
\* of one statement takes NewId(rows) + k - 1
NewId(rows) == Min({n \in 1..(Cardinality(rows) + 1) : \A row \in rows : row.id # n})

\* ------------------------------------------------------------------------
\* cli.ts: the ingest command
\* ------------------------------------------------------------------------

\* the session files there can be, in the order findSessionFiles walks them
WalkOrder == <<Path("d1", "s1"), Path("d2", "s2")>>

Paths == Range(WalkOrder)

SessionIds == {p.base : p \in Paths}

NoFile == [exists |-> FALSE, lines |-> <<>>]

File(lines) == [exists |-> TRUE, lines |-> lines]

\* The transcripts a session file can hold: two retained records; one retained
\* record of another role and time, and a malformed line; none retained;
\* no line that is not blank; no line that parses.
Transcripts ==
    {<<Message("user", 1, Str(TxtPlease)), Message("assistant", 2, Str(TxtEdit))>>,
     <<ToolResult(3, Read, Str(TxtOk), Undef), MalformedLine>>,
     <<Message("user", 1, Str(TxtShort))>>,
     <<BlankLine>>,
     <<MalformedLine, MalformedLine>>}

Files == {NoFile} \cup {File(t) : t \in Transcripts}

\* the commands run one after the other
MaxRuns == 2

\* the largest --limit
MaxLimit == 1

\* findSessionFiles: the files that exist
Listing(d) == SelectSeq(WalkOrder, LAMBDA p : d[p].exists)

\* files.slice(0, opts.limit) if (opts.limit)
Limited(files, limit) ==
    IF limit # 0 /\ limit < Len(files) THEN SubSeq(files, 1, limit) ELSE files

\* opts.file ? [opts.file] : findSessionFiles(opts.path), then --limit
Selections(d) ==
    {<<p>> : p \in Paths} \cup {Limited(Listing(d), limit) : limit \in 0..MaxLimit}

\* no command has run: pc is where the command stands, exitCode the code the
\* process has ended with, health the answer of checkOllama
Idle ==
    [command |-> "none", pc |-> "idle", exitCode |-> 0, health |-> "unchecked", n |-> 0,
     embed |-> TRUE, files |-> <<>>, k |-> 1, processed |-> 0,
     skipped |-> 0, totalChunks |-> 0, session |-> Null, sessionDbId |-> 0, chunks |-> <<>>]

\* the process of the command has ended: its action has returned, it has
\* called process.exit(1), or a rejection nothing handles has ended it
Ended(r) == r.pc \in {"idle", "done", "exit", "crashed"}

\* checkOllama(): { ok: true } when the service answers and has the model
checkOllama(ready) == IF ready THEN "ok" ELSE "down"

\* a command that goes on whatever the check says
UnreadyIgnored(health) == FALSE

\* if (!ollamaCheck.ok)
Unready(health) == health = "down"

\* spinner.fail(ollamaCheck.error); process.exit(1)
Exit(r) == [r EXCEPT !.pc = "exit", !.exitCode = 1]

\* a rejected promise that the action does not catch: the action is abandoned
\* where it stands and the process ends with an error
Uncaught(r) == [r EXCEPT !.pc = "crashed", !.exitCode = 1]

\* the argument of upsertSession (cli.ts)
SessionRow(s) ==
    [session_id |-> s.sessionId, source_path |-> s.sourcePath,
     project_name |-> s.projectName, created_at |-> s.createdAt,
     updated_at |-> s.updatedAt, message_count |-> Len(s.messages),
     total_tokens |-> s.totalTokens, total_cost |-> s.totalCost, metadata |-> "{}"]

\* session.messages.map(...): the chunks, without an embedding
Prepared(s, sessionDbId) ==
    [k \in 1..Len(s.messages) |->
        [session_id |-> sessionDbId, chunk_index |-> s.messages[k].index,
         role |-> s.messages[k].role, content |-> s.messages[k].content,
         embedding |-> NoVector, token_count |-> s.messages[k].tokenCount,
         tools_used |-> s.messages[k].toolsUsed,
         files_mentioned |-> s.messages[k].filesMentioned,
         created_at |-> s.messages[k].timestamp, metadata |-> "{}"]]

\* the chunks as they were prepared
WithEmbeddingsDropped(cs, embeddings) == cs

\* chunks.forEach((chunk, i) => { chunk.embedding = embeddings[i] })
WithEmbeddings(cs, embeddings) ==
    [k \in 1..Len(cs) |-> [cs[k] EXCEPT !.embedding = embeddings[k]]]

\* the end of one iteration of the loop: its locals session, sessionDbId and
\* chunks go out of scope
NextFile(r) ==
    [r EXCEPT !.k = @ + 1, !.pc = "loop", !.session = Null, !.sessionDbId = 0,
              !.chunks = <<>>]

\* continue, without the count
SkippedUncounted(r) == NextFile(r)

\* skipped++; continue
Skipped(r) == NextFile([r EXCEPT !.skipped = @ + 1])

\* an error that leaves the loop instead of being caught in it
CaughtOutsideLoop(r) == [NextFile([r EXCEPT !.skipped = @ + 1]) EXCEPT !.pc = "done"]

\* catch (error) { console.error(...); skipped++ }
Caught(r) == NextFile([r EXCEPT !.skipped = @ + 1])

LogLast(l, field, value) == [l EXCEPT ![Len(l)] = [@ EXCEPT ![field] = value]]

NotIngested == [lines |-> <<>>, times |-> 0, rows |-> {}, row |-> {}]

\* a row of chunks without what a second ingestion of the same transcript
\* may change: the vector the embedding service answers with
Comparable(row) == [row EXCEPT !.embedding = NoVector]

ChunksOf(rows, sessionDbId) == {row \in rows : row.session_id = sessionDbId}

RowsOf(rows, session_id) == {row \in rows : row.session_id = session_id}

InitIngest ==
    /\ transcript = <<>>
    /\ parsed = [called |-> FALSE, result |-> Null]
    /\ batch = NoBatch
    /\ requests = {}
    /\ history = NoHistory
    /\ returned = [status |-> "pending", vectors |-> <<>>]
    /\ disk \in [Paths -> Files]
    /\ sessions = {}
    /\ chunks = {}
    /\ pool = FALSE
    /\ run = Idle
    /\ log = <<>>
    /\ ingested = [id \in SessionIds |-> NotIngested]
    /\ found = NoSearch

\* The user changes, creates or deletes a transcript between two commands.  (A
\* change during a run reaches the store as the same change before or after
\* the run does: parseSessionFile reads the file in one step.)
EditFile ==
    /\ Ended(run)
    /\ run.n < MaxRuns
    /\ \E p \in Paths, f \in Files :
          /\ f # disk[p]
          /\ disk' = [disk EXCEPT ![p] = f]
    /\ UNCHANGED <<parseVars, found, batchVars, returned, storeVars, pool, run, log, ingested>>

\* session-rag ingest [--file F] [--limit N] [--no-embed], up to the loop over
\* the files; a new process starts once the previous one has ended, which it
\* does when none of its requests is outstanding
StartIngest ==
    /\ Ended(run)
    /\ run.n < MaxRuns
    /\ requests = {}
    /\ \E embed \in BOOLEAN, ready \in BOOLEAN, files \in Selections(disk) :
          LET health == IF embed THEN checkOllama(ready) ELSE "unchecked"
              r == [Idle EXCEPT !.command = "ingest", !.n = run.n + 1, !.embed = embed,
                                !.health = health]
          IN  run' = IF Unready(health) THEN Exit(r)
                     ELSE [r EXCEPT !.pc = "loop", !.files = files]
    /\ log' = <<>>
    /\ found' = NoSearch
    /\ UNCHANGED <<parseVars, batchVars, returned, storeVars, disk, pool, ingested>>

\* the head of the loop: the next file is parsed, and skipped when it yields
\* no session; otherwise upsertSession sends its statement
FileBegin ==
    /\ run.pc = "loop"
    /\ run.k <= Len(run.files)
    /\ LET file == run.files[run.k]
           session == IF disk[file].exists THEN parseSessionFile(file, disk[file].lines)
                      ELSE Null
       IN  IF ~session.ok \/ Len(session.messages) = 0
           THEN /\ run' = Skipped([run EXCEPT !.session = Null])
                /\ log' = Append(log, [file |-> file, outcome |-> "skipped",
                                       wroteSession |-> FALSE, wroteChunks |-> FALSE])
                /\ UNCHANGED pool
           ELSE /\ run' = [run EXCEPT !.session = session, !.pc = "upsertSession"]
                /\ log' = Append(log, [file |-> file, outcome |-> "pending",
                                       wroteSession |-> FALSE, wroteChunks |-> FALSE])
                /\ pool' = TRUE
    /\ UNCHANGED <<parseVars, found, batchVars, returned, storeVars, disk, ingested>>

\* upsertSession returns: the chunks are prepared and, unless --no-embed,
\* embedBatch dispatches its first window
UpsertOk ==
    /\ run.pc = "upsertSession"
    /\ LET s == run.session
           rows == upsertSession(sessions, SessionRow(s), NewId(sessions), run.n)
           id == ReturnedId(rows, s.sessionId)
           cs == Prepared(s, id)
           texts == [k \in 1..Len(cs) |-> cs[k].content]
           b == embedBatch(NewCall(requests), texts, DefaultConcurrency)
           lines == disk[run.files[run.k]].lines
       IN  /\ sessions' = rows
           /\ log' = LogLast(log, "wroteSession", TRUE)
           /\ ingested' = IF ingested[s.sessionId].lines = lines THEN ingested
                          ELSE [ingested EXCEPT ![s.sessionId] =
                                  [NotIngested EXCEPT !.lines = lines]]
           /\ IF run.embed
              THEN /\ run' = [run EXCEPT !.sessionDbId = id, !.chunks = cs, !.pc = "embedBatch"]
                   /\ batch' = b
                   /\ requests' = requests \cup Dispatched(b)
                   /\ history' = Issue(NewHistory(texts), Dispatched(b))
              ELSE /\ run' = [run EXCEPT !.sessionDbId = id, !.chunks = cs, !.pc = "insertChunks"]
                   /\ UNCHANGED batchVars
    /\ UNCHANGED <<parseVars, found, returned, chunks, disk, pool>>

UpsertFails ==
    /\ run.pc = "upsertSession"
    /\ run' = Caught(run)
    /\ log' = LogLast(log, "outcome", "skipped")
    /\ UNCHANGED <<parseVars, found, batchVars, returned, storeVars, disk, pool, ingested>>

\* embedBatch has returned: the embeddings are assigned and insertChunks sends
\* its statement.  Nothing refers to the locals of the call any more.
EmbedReturns ==
    /\ run.pc = "embedBatch"
    /\ batch.status = "resolved"
    /\ run' = [run EXCEPT !.chunks = WithEmbeddings(@, batch.results), !.pc = "insertChunks"]
    /\ batch' = NoBatch
    /\ history' = NoHistory
    /\ UNCHANGED <<parseVars, found, requests, returned, storeVars, disk, pool, log, ingested>>

\* embedBatch has thrown.  The requests still outstanding keep the locals of
\* the call, which nothing else can read any more.
EmbedThrows ==
    /\ run.pc = "embedBatch"
    /\ batch.status = "rejected"
    /\ run' = Caught(run)
    /\ log' = LogLast(log, "outcome", "skipped")
    /\ batch' = NoBatch
    /\ history' = NoHistory
    /\ UNCHANGED <<parseVars, found, requests, returned, storeVars, disk, pool, ingested>>

\* insertChunks returns: processed++, totalChunks += chunks.length
InsertOk ==
    /\ run.pc = "insertChunks"
    /\ LET sid == run.session.sessionId
           rows == insertChunks(chunks, run.chunks, NewId(chunks))
           mine == {Comparable(row) : row \in ChunksOf(rows, run.sessionDbId)}
           row == {[r EXCEPT !.ingested_at = 0] : r \in RowsOf(sessions, sid)}
       IN  /\ chunks' = rows
           /\ ingested' = [ingested EXCEPT ![sid] =
                             IF @.times = 0
                             THEN [@ EXCEPT !.times = 1, !.rows = mine, !.row = row]
                             ELSE [@ EXCEPT !.times = @ + 1]]
    /\ run' = NextFile([run EXCEPT !.processed = @ + 1, !.totalChunks = @ + Len(run.chunks)])
    /\ log' = LogLast(LogLast(log, "outcome", "processed"), "wroteChunks", TRUE)
    /\ UNCHANGED <<parseVars, found, batchVars, returned, sessions, disk, pool>>

InsertFails ==
    /\ run.pc = "insertChunks"
    /\ run' = Caught(run)
    /\ log' = LogLast(log, "outcome", "skipped")
    /\ UNCHANGED <<parseVars, found, batchVars, returned, storeVars, disk, pool, ingested>>

\* the loop is over: the totals are printed and closePool() ends the pool
Finish ==
    /\ run.pc = "loop"
    /\ run.k > Len(run.files)
    /\ run' = [run EXCEPT !.pc = "done"]
    /\ pool' = FALSE
    /\ UNCHANGED <<parseVars, found, batchVars, returned, storeVars, disk, log, ingested>>

\* ------------------------------------------------------------------------
\* db/index.ts: semanticSearch, hybridSearch
\* ------------------------------------------------------------------------

Dot(u, v) == u[1] * v[1] + u[2] * v[2]

\* c.embedding <=> $1, the cosine distance, in fiftieths: 1 - u.v / (|u| |v|)
\* for vectors of norm 5
Distance(u, v) == 50 - 2 * Dot(u, v)

\* The words of a text: its maximal runs of word characters.
RECURSIVE Words(_, _)
Words(s, from) ==
    LET start == RunEnd(s, from, "notWord")
        end == RunEnd(s, start, "word")
    IN  IF start > Len(s) THEN {} ELSE {SubSeq(s, start, end - 1)} \cup Words(s, end)

\* words the 'english' text search configuration drops
StopWords == {<<"t", "h", "e">>, <<"a">>, <<"o", "f">>}

\* to_tsvector('english', content), plainto_tsquery(keyword): the lexemes.
\* (The words of the texts used here are their own stems, and the default
\* text search configuration, which plainto_tsquery($2) uses, is 'english'.)
Lexemes(s) == Words(s, 1) \ StopWords

\* to_tsvector('english', c.content) @@ plainto_tsquery($2): the query is the
\* conjunction of its lexemes, and a query without a lexeme matches nothing
LexicalMatch(content, keyword) ==
    Lexemes(keyword) # {} /\ Lexemes(keyword) \subseteq Lexemes(content)

\* COALESCE(x, 0); -1 stands for NULL
Coalesce(x, default) == IF x = -1 THEN default ELSE x

\* 1 - (c.embedding <=> $1) AS similarity
SemanticSimilarity(row, embedding) == 50 - Distance(row.embedding, embedding)

\* 0.7 * (1 - (c.embedding <=> $1)) + 0.3 * COALESCE(ts_rank(...), 0) AS
\* similarity, in five-hundredths; rank is ts_rank(...) in fiftieths
HybridSimilarity(row, embedding, rank) ==
    7 * (50 - Distance(row.embedding, embedding)) + 3 * Coalesce(rank, 0)

\* WHERE c.embedding IS NOT NULL [AND c.role = $2]   (if (roleFilter))
SemanticWhere(row, roleFilter) ==
    row.embedding # NoVector /\ (roleFilter # "" => row.role = roleFilter)

\* WHERE c.embedding IS NOT NULL AND to_tsvector(...) @@ plainto_tsquery($2)
HybridWhereAnyText(row, keyword) == row.embedding # NoVector

HybridWhere(row, keyword) ==
    row.embedding # NoVector /\ LexicalMatch(row.content, keyword)

\* FROM chunks c JOIN sessions s ON c.session_id = s.id, with the columns
\* of the SELECT list
Selected(c, s, similarity) ==
    [session_id |-> c.session_id, source_session_id |-> s.session_id,
     project_name |-> s.project_name, chunk_index |-> c.chunk_index, role |-> c.role,
     content |-> c.content, similarity |-> similarity, created_at |-> c.created_at]

Joined(crows, srows) ==
    {j \in [c : crows, s : srows] : j.s.id = j.c.session_id}

\* ORDER BY key [DESC] LIMIT limit over the rows: every list the store may
\* answer with.  Rows of equal key come in any order.  key maps a row to its
\* sort key, and sign is 1 for ascending, -1 for descending.
OrderedLimit(rows, key, sign, limit) ==
    LET n == IF limit < Cardinality(rows) THEN limit ELSE Cardinality(rows)
    IN  {list \in [1..n -> rows] :
            /\ \A a, b \in 1..n : a < b =>
                  /\ list[a] # list[b]
                  /\ sign * key[list[a]] <= sign * key[list[b]]
            /\ \A row \in rows \ Range(list) :
                  \A a \in 1..n : sign * key[list[a]] <= sign * key[row]}

\* ORDER BY c.embedding <=> $1: the sort key, ascending
SemanticKeyBySimilarity(row, embedding) == 50 - Distance(row.embedding, embedding)

SemanticKey(row, embedding) == Distance(row.embedding, embedding)

\* CREATE INDEX chunks_embedding_idx ... USING ivfflat: a scan in the order of
\* the index visits the rows of the lists it probes, which may be any of the
\* rows; the planner may also sort all of them
IndexScan(rows) == SUBSET rows

\* the lists semanticSearch(embedding, limit, roleFilter) may return
semanticSearch(crows, srows, embedding, limit, roleFilter) ==
    LET rows == {j \in Joined(crows, srows) : SemanticWhere(j.c, roleFilter)}
        key == [j \in rows |-> SemanticKey(j.c, embedding)]
    IN  {[k \in DOMAIN list |->
            Selected(list[k].c, list[k].s, SemanticSimilarity(list[k].c, embedding))] :
         list \in UNION {OrderedLimit(visited, key, 1, limit) : visited \in IndexScan(rows)}}

\* the lists hybridSearch(embedding, keyword, limit) may return; rank maps a
\* content to ts_rank(to_tsvector('english', content), plainto_tsquery(keyword))
hybridSearch(crows, srows, embedding, keyword, rank, limit) ==
    LET rows == {j \in Joined(crows, srows) : HybridWhere(j.c, keyword)}
        key == [j \in rows |-> HybridSimilarity(j.c, embedding, rank[j.c.content])]
    IN  {[k \in DOMAIN list |-> Selected(list[k].c, list[k].s, key[list[k]])] :
         list \in OrderedLimit(rows, key, -1, limit)}

\* ------------------------------------------------------------------------
\* embedBatch on its own: one call, any texts, any concurrency
\* ------------------------------------------------------------------------

\* the longest list of texts of a call
MaxTexts == 5

\* the largest concurrency of a call
MaxConcurrency == 3

Texts(n) == [k \in 1..n |-> Digits(k)]

InitBatch ==
    /\ transcript = <<>>
    /\ parsed = [called |-> FALSE, result |-> Null]
    /\ batch = NoBatch
    /\ requests = {}
    /\ history = NoHistory
    /\ returned = [status |-> "pending", vectors |-> <<>>]
    /\ disk = [p \in Paths |-> NoFile]
    /\ sessions = {}
    /\ chunks = {}
    /\ pool = FALSE
    /\ run = Idle
    /\ log = <<>>
    /\ ingested = [id \in SessionIds |-> NotIngested]
    /\ found = NoSearch

CallEmbedBatch ==
    /\ batch.status = "idle"
    /\ \E n \in 0..MaxTexts, c \in 1..MaxConcurrency :
          LET b == embedBatch(1, Texts(n), c)
          IN  /\ batch' = b
              /\ requests' = Dispatched(b)
              /\ history' = Issue(NewHistory(Texts(n)), Dispatched(b))
    /\ UNCHANGED <<returned, parseVars, found, storeVars, ingestVars>>

Succeed ==
    /\ \E r \in requests, e \in Embeddings : RequestSucceeds(r, e)
    /\ UNCHANGED <<returned, parseVars, found, storeVars, ingestVars>>

Fail ==
    /\ \E r \in requests : RequestFails(r)
    /\ UNCHANGED <<returned, parseVars, found, storeVars, ingestVars>>

\* const embeddings = await embedBatch(texts)
Return ==
    /\ returned.status = "pending"
    /\ batch.status = "resolved"
    /\ returned' = [status |-> "returned", vectors |-> batch.results]
    /\ UNCHANGED <<batchVars, parseVars, found, storeVars, ingestVars>>

Throw ==
    /\ returned.status = "pending"
    /\ batch.status = "rejected"
    /\ returned' = [status |-> "thrown", vectors |-> <<>>]
    /\ UNCHANGED <<batchVars, parseVars, found, storeVars, ingestVars>>

NextBatch == CallEmbedBatch \/ Succeed \/ Fail \/ Return \/ Throw

SpecBatch == InitBatch /\ [][NextBatch]_vars

\* ------------------------------------------------------------------------
\* parseSessionFile on its own: one call on any transcript
\* ------------------------------------------------------------------------

InitParse ==
    /\ transcript \in SeqsUpTo(Lines, MaxLines)
    /\ parsed = [called |-> FALSE, result |-> Null]
    /\ batch = NoBatch
    /\ requests = {}
    /\ history = NoHistory
    /\ returned = [status |-> "pending", vectors |-> <<>>]
    /\ disk = [p \in Paths |-> NoFile]
    /\ sessions = {}
    /\ chunks = {}
    /\ pool = FALSE
    /\ run = Idle
    /\ log = <<>>
    /\ ingested = [id \in SessionIds |-> NotIngested]
    /\ found = NoSearch

Parse ==
    /\ ~parsed.called
    /\ parsed' = [called |-> TRUE, result |-> parseSessionFile(Path("d1", "s1"), transcript)]
    /\ UNCHANGED <<transcript, found, batchVars, returned, storeVars, ingestVars>>

NextParse == Parse

SpecParse == InitParse /\ [][NextParse]_vars

\* ------------------------------------------------------------------------
\* The ingest command, run up to MaxRuns times on files the user edits
\* ------------------------------------------------------------------------

Next ==
    \/ EditFile \/ StartIngest \/ FileBegin \/ UpsertOk \/ UpsertFails
    \/ Succeed \/ Fail \/ EmbedReturns \/ EmbedThrows \/ InsertOk \/ InsertFails \/ Finish

Spec == InitIngest /\ [][Next]_vars

\* ------------------------------------------------------------------------
\* The two searches on their own: one search of any stored chunks
\* ------------------------------------------------------------------------

TxtFix == <<"f", "i", "x", " ", "t", "h", "e", " ", "b", "u", "g">>

TxtHook == <<"w", "e", "b", "h", "o", "o", "k", " ", "h", "a", "n", "d", "l", "e", "r">>

TxtBoth == <<"f", "i", "x", " ", "w", "e", "b", "h", "o", "o", "k", " ", "b", "u", "g">>

SearchTexts == {TxtFix, TxtHook, TxtBoth}

\* the query strings: two words, one word, a stop word only
Keywords ==
    {<<"f", "i", "x", " ", "b", "u", "g">>, <<"w", "e", "b", "h", "o", "o", "k">>,
     <<"t", "h", "e">>}

\* the query vectors, of norm 5
Queries == {<<5, 0>>, <<3, 4>>}

\* the values of ts_rank, in fiftieths
Ranks == {0, 25}

\* the values of --role; "" when the option is not given
RoleFilters == {"", "user", "tool"}

\* what a stored chunk can be: a role, a text, and an embedding or none
StoredKinds ==
    {[role |-> "user", content |-> TxtFix, embedding |-> NoVector],
     [role |-> "user", content |-> TxtFix, embedding |-> <<4, 3>>],
     [role |-> "assistant", content |-> TxtHook, embedding |-> <<5, 0>>],
     [role |-> "tool", content |-> TxtBoth, embedding |-> <<0, 5>>],
     [role |-> "tool", content |-> TxtBoth, embedding |-> <<4, 3>>],
     [role |-> "tool", content |-> TxtHook, embedding |-> NoVector]}

\* the most chunks in the store
MaxStored == 3

\* the largest result limit
MaxResults == 2

StoredSession ==
    InsertedSession([session_id |-> "s1", source_path |-> Path("d1", "s1"),
                     project_name |-> Undef, created_at |-> 1, updated_at |-> 2,
                     message_count |-> 0, total_tokens |-> 0, total_cost |-> 0,
                     metadata |-> "{}"], 1, 1)

StoredChunks(kinds) ==
    {InsertedChunk([session_id |-> 1, chunk_index |-> k - 1, role |-> kinds[k].role,
                    content |-> kinds[k].content, embedding |-> kinds[k].embedding,
                    token_count |-> tokenCount(kinds[k].content), tools_used |-> <<>>,
                    files_mentioned |-> <<>>, created_at |-> 1, metadata |-> "{}"], k) :
        k \in 1..Len(kinds)}

InitSearch ==
    /\ transcript = <<>>
    /\ parsed = [called |-> FALSE, result |-> Null]
    /\ batch = NoBatch
    /\ requests = {}
    /\ history = NoHistory
    /\ returned = [status |-> "pending", vectors |-> <<>>]
    /\ disk = [p \in Paths |-> NoFile]
    /\ sessions = {StoredSession}
    /\ \E kinds \in SeqsUpTo(StoredKinds, MaxStored) : chunks = StoredChunks(kinds)
    /\ pool = FALSE
    /\ run = Idle
    /\ log = <<>>
    /\ ingested = [id \in SessionIds |-> NotIngested]
    /\ found = NoSearch

\* results = await semanticSearch(queryEmbedding, limit, opts.role)
SemanticSearch ==
    /\ found.mode = "none"
    /\ \E embedding \in Queries, limit \in 0..MaxResults, roleFilter \in RoleFilters :
          \E rows \in semanticSearch(chunks, sessions, embedding, limit, roleFilter) :
             found' = [NoSearch EXCEPT !.mode = "semantic", !.embedding = embedding,
                                       !.limit = limit, !.roleFilter = roleFilter,
                                       !.rows = rows]
    /\ pool' = TRUE
    /\ UNCHANGED <<parseVars, batchVars, returned, storeVars, disk, run, log, ingested>>

\* results = await hybridSearch(queryEmbedding, query, limit); the store ranks
\* each text against the query as it sees fit
HybridSearch ==
    /\ found.mode = "none"
    /\ \E embedding \in Queries, keyword \in Keywords, limit \in 0..MaxResults,
          rank \in [SearchTexts -> Ranks] :
          \E rows \in hybridSearch(chunks, sessions, embedding, keyword, rank, limit) :
             found' = [NoSearch EXCEPT !.mode = "hybrid", !.embedding = embedding,
                                       !.keyword = keyword, !.limit = limit,
                                       !.rank = rank, !.rows = rows]
    /\ pool' = TRUE
    /\ UNCHANGED <<parseVars, batchVars, returned, storeVars, disk, run, log, ingested>>

NextSearch == SemanticSearch \/ HybridSearch

SpecSearch == InitSearch /\ [][NextSearch]_vars

\* ------------------------------------------------------------------------
\* The search and stats commands (cli.ts)
\* ------------------------------------------------------------------------

\* session-rag search <query> [-n N] [-r ROLE] [-k], up to await embed(query);
\* parseInt(opts.limit) is at least 1 here
StartSearch ==
    /\ Ended(run)
    /\ run.n < MaxRuns
    /\ requests = {}
    /\ \E ready \in BOOLEAN, hybrid \in BOOLEAN, query \in Keywords, limit \in 1..MaxResults,
          roleFilter \in RoleFilters :
          LET r == [Idle EXCEPT !.command = "search", !.n = run.n + 1,
                                !.health = checkOllama(ready)]
          IN  IF Unready(r.health)
              THEN /\ run' = Exit(r)
                   /\ found' = NoSearch
              ELSE /\ run' = [r EXCEPT !.pc = "embed"]
                   /\ found' = IF hybrid
                                THEN [NoSearch EXCEPT !.mode = "hybrid", !.keyword = query,
                                                      !.limit = limit]
                                ELSE [NoSearch EXCEPT !.mode = "semantic", !.limit = limit,
                                                      !.roleFilter = roleFilter]
    /\ log' = <<>>
    /\ UNCHANGED <<parseVars, batchVars, returned, storeVars, disk, pool, ingested>>

\* embed(query) returns: hybridSearch or semanticSearch is called, getPool()
\* makes the pool and the statement is sent
QueryEmbedded ==
    /\ run.command = "search"
    /\ run.pc = "embed"
    /\ \E embedding \in Queries : found' = [found EXCEPT !.embedding = embedding]
    /\ run' = [run EXCEPT !.pc = "search"]
    /\ pool' = TRUE
    /\ UNCHANGED <<parseVars, batchVars, returned, storeVars, disk, log, ingested>>

\* embed(query) throws
QueryEmbedFails ==
    /\ run.command = "search"
    /\ run.pc = "embed"
    /\ run' = Uncaught(run)
    /\ UNCHANGED <<parseVars, found, batchVars, returned, storeVars, disk, pool, log, ingested>>

\* the statement returns its rows: they are printed and closePool() ends the
\* pool
SearchReturns ==
    /\ run.command = "search"
    /\ run.pc = "search"
    /\ \/ /\ found.mode = "semantic"
          /\ \E rows \in semanticSearch(chunks, sessions, found.embedding, found.limit,
                                        found.roleFilter) :
                found' = [found EXCEPT !.rows = rows]
       \/ /\ found.mode = "hybrid"
          /\ \E rank \in [{c.content : c \in chunks} -> Ranks] :
                \E rows \in hybridSearch(chunks, sessions, found.embedding, found.keyword,
                                         rank, found.limit) :
                   found' = [found EXCEPT !.rank = rank, !.rows = rows]
    /\ run' = [run EXCEPT !.pc = "done"]
    /\ pool' = FALSE
    /\ UNCHANGED <<parseVars, batchVars, returned, storeVars, disk, log, ingested>>

\* pool.query rejects in hybridSearch or semanticSearch
SearchFails ==
    /\ run.command = "search"
    /\ run.pc = "search"
    /\ run' = Uncaught(run)
    /\ UNCHANGED <<parseVars, found, batchVars, returned, storeVars, disk, pool, log, ingested>>

\* the row getStats() returns
getStats(crows, srows) ==
    [sessions |-> Cardinality(srows), chunks |-> Cardinality(crows),
     embedded |-> Cardinality({c \in crows : c.embedding # NoVector})]

\* session-rag stats, up to await getStats(): getPool() makes the pool and
\* the statement is sent
StartStats ==
    /\ Ended(run)
    /\ run.n < MaxRuns
    /\ requests = {}
    /\ run' = [Idle EXCEPT !.command = "stats", !.n = run.n + 1, !.pc = "getStats"]
    /\ found' = NoSearch
    /\ log' = <<>>
    /\ pool' = TRUE
    /\ UNCHANGED <<parseVars, batchVars, returned, storeVars, disk, ingested>>

\* the counts are printed and closePool() ends the pool
StatsReturns ==
    /\ run.command = "stats"
    /\ run.pc = "getStats"
    /\ found' = [NoSearch EXCEPT !.mode = "stats", !.rows = <<getStats(chunks, sessions)>>]
    /\ run' = [run EXCEPT !.pc = "done"]
    /\ pool' = FALSE
    /\ UNCHANGED <<parseVars, batchVars, returned, storeVars, disk, log, ingested>>

\* pool.query rejects in getStats
StatsFails ==
    /\ run.command = "stats"
    /\ run.pc = "getStats"
    /\ run' = Uncaught(run)
    /\ UNCHANGED <<parseVars, found, batchVars, returned, storeVars, disk, pool, log, ingested>>

\* the commands, one process after the other
NextCommands ==
    \/ Next
    \/ StartSearch \/ QueryEmbedded \/ QueryEmbedFails \/ SearchReturns \/ SearchFails
    \/ StartStats \/ StatsReturns \/ StatsFails

SpecCommands == InitIngest /\ [][NextCommands]_vars
\* ------------------------------------------------------------------------
\* Properties
\* ------------------------------------------------------------------------

\* C1: the chunks parseSessionFile emits carry the sequence indices 0..n-1 in
\* emission order, whatever was dropped between them.
C1_DenseIndices ==
    parsed.result.ok =>
        \A k \in 1..Len(parsed.result.messages) : parsed.result.messages[k].index = k - 1

\* a malformed line between two retained records
C1_Reached ==
    /\ parsed.called
    /\ parsed.result.ok
    /\ Len(transcript) = 3
    /\ transcript[2] = MalformedLine
    /\ Len(parsed.result.messages) = 2

\* C2: during a call of embedBatch with concurrency c >= 1, at most c requests
\* are outstanding at any time: the outstanding requests all belong to the
\* window the loop is at, and no text of a later window has been requested.
C2_BoundedOutstanding ==
    batch.status # "idle" =>
        /\ batch.concurrency >= 1
        /\ Cardinality(Outstanding(batch, requests)) <= batch.concurrency
        /\ \A r \in Outstanding(batch, requests) : r.i = batch.i
        /\ \A k \in DOMAIN history.issued :
              history.issued[k] > 0 => k <= batch.i + batch.concurrency

\* a full window that is not the first, with texts left for a later one
C2_Reached ==
    /\ batch.status = "awaiting"
    /\ batch.concurrency >= 2
    /\ batch.i > 0
    /\ Cardinality(Outstanding(batch, requests)) = batch.concurrency
    /\ Len(batch.texts) > batch.i + batch.concurrency

\* C3: when every request succeeds, embedBatch returns a list as long as its
\* input whose position i holds the vector obtained for text i, in whatever
\* order the requests completed; each slot is written once, by the request
\* for its own index.
C3_SameLengthSameOrder ==
    returned.status = "returned" =>
        /\ history.failed = {}
        /\ Len(returned.vectors) = Len(batch.texts)
        /\ \A k \in 1..Len(batch.texts) :
              /\ returned.vectors[k] # NoVector
              /\ returned.vectors[k] = history.obtained[k]
              /\ history.writers[k] = <<k - 1>>

\* two windows, completions out of input order, different vectors
C3_Reached ==
    /\ returned.status = "returned"
    /\ Len(batch.texts) = 5
    /\ batch.concurrency = 3
    /\ \E a, b \in DOMAIN history.order : a < b /\ history.order[a] > history.order[b]
    /\ \E k, l \in DOMAIN returned.vectors : returned.vectors[k] # returned.vectors[l]

\* C4: when a request of an embedBatch call fails, the call fails and returns
\* no vector, no request of a later window is dispatched, and no text is ever
\* requested twice.
C4_FailsWhole ==
    /\ \A k \in DOMAIN history.issued : history.issued[k] <= 1
    /\ history.failed # {} =>
          /\ batch.status = "rejected"
          /\ returned.status # "returned"
          /\ returned.vectors = <<>>
          /\ \A f \in history.failed : batch.i <= f /\ f < batch.i + batch.concurrency
          /\ \A k \in DOMAIN history.issued :
                history.issued[k] > 0 => k <= batch.i + batch.concurrency

\* a failure in the second window, followed by a success of the same window,
\* with texts left for a third window
C4_Reached ==
    /\ returned.status = "thrown"
    /\ batch.i > 0
    /\ Len(batch.texts) > batch.i + batch.concurrency
    /\ \E a, b \in DOMAIN history.order :
          /\ a < b
          /\ history.order[a] \in history.failed
          /\ history.order[b] \notin history.failed
          /\ history.order[b] >= batch.i

\* C5: every file of an ingest run ends processed, with its session record and
\* its chunks written, or skipped, with nothing written for it in this run.
C5_SkippedWritesNothing ==
    \A k \in DOMAIN log :
        \/ log[k].outcome = "pending"
        \/ log[k].outcome = "processed" /\ log[k].wroteSession /\ log[k].wroteChunks
        \/ log[k].outcome = "skipped" /\ ~log[k].wroteSession /\ ~log[k].wroteChunks

\* C6: an ingest run attempts every file of its list once, in list order; a
\* failure of any step counts the file as skipped and the loop goes on, so
\* that at the end processed + skipped is the number of files.
C6_EveryFileOnce ==
    LET Count(outcome) == Cardinality({k \in DOMAIN log : log[k].outcome = outcome})
    IN  run.pc \notin {"idle", "exit"} =>
            /\ Len(log) <= Len(run.files)
            /\ \A k \in DOMAIN log : log[k].file = run.files[k]
            /\ run.processed = Count("processed")
            /\ run.skipped = Count("skipped")
            /\ \A k \in DOMAIN log :
                  log[k].outcome = "pending" => k = Len(log) /\ run.pc \notin {"loop", "done"}
            /\ run.pc \in {"loop", "done"} => run.k = Len(log) + 1
            /\ run.pc = "done" =>
                  /\ Len(log) = Len(run.files)
                  /\ run.processed + run.skipped = Len(run.files)

\* a run of two files that has ended: the first failed after its parse, the
\* second was processed
C6_Reached ==
    /\ run.pc = "done"
    /\ Len(run.files) = 2
    /\ log[1].outcome = "skipped"
    /\ log[1].wroteSession
    /\ log[2].outcome = "processed"

\* C7: once a file has been ingested, ingesting it again unchanged leaves one
\* session record for its identifier, the same one, and the same chunks (the
\* vectors apart, which the embedding service answers anew), one per
\* sequence index.
C7_ReingestIdempotent ==
    \A sid \in SessionIds :
        ingested[sid].times >= 1 =>
            LET mine == RowsOf(sessions, sid)
                cs == UNION {ChunksOf(chunks, s.id) : s \in mine}
            IN  /\ Cardinality(mine) = 1
                /\ {[s EXCEPT !.ingested_at = 0] : s \in mine} = ingested[sid].row
                /\ {Comparable(c) : c \in cs} = ingested[sid].rows
                /\ Cardinality(cs) = Cardinality(ingested[sid].rows)
                /\ \A a, b \in cs : a.chunk_index = b.chunk_index => a = b

\* a file of two chunks ingested twice, unchanged
C7_Reached ==
    \E sid \in SessionIds :
        /\ ingested[sid].times >= 2
        /\ Cardinality(ingested[sid].rows) = 2
        /\ Cardinality(chunks) >= 2

\* C8: after a file has been ingested, the session record (its identifier and
\* ingestion time apart) and the chunks of the session (identifiers and
\* vectors apart) are those that ingesting the file into an empty store gives.
C8_FullReplace ==
    \A p \in Paths :
        ingested[p.base].times >= 1 =>
            LET s == parseSessionFile(p, ingested[p.base].lines)
                fresh == upsertSession({}, SessionRow(s), 1, 0)
                freshChunks == insertChunks({}, Prepared(s, ReturnedId(fresh, p.base)), 1)
                mine == RowsOf(sessions, p.base)
                cs == UNION {ChunksOf(chunks, r.id) : r \in mine}
                Derived(r) == [r EXCEPT !.id = 0, !.ingested_at = 0]
                Fields(c) == [c EXCEPT !.id = 0, !.session_id = 0, !.embedding = NoVector]
            IN  /\ {Derived(r) : r \in mine} = {Derived(r) : r \in fresh}
                /\ {Fields(c) : c \in cs} = {Fields(c) : c \in freshChunks}

\* C9: hybridSearch returns at most limit rows, each of a chunk that has an
\* embedding and matches the query string, scored
\* 0.7 (1 - cosine distance) + 0.3 rank, in descending order of the score.
C9_HybridSearch ==
    found.mode = "hybrid" =>
        /\ Len(found.rows) <= found.limit
        /\ \A k \in DOMAIN found.rows :
              \E c \in chunks :
                 /\ c.session_id = found.rows[k].session_id
                 /\ c.chunk_index = found.rows[k].chunk_index
                 /\ c.content = found.rows[k].content
                 /\ c.embedding # NoVector
                 /\ LexicalMatch(c.content, found.keyword)
                 /\ found.rows[k].similarity =
                       7 * (50 - Distance(c.embedding, found.embedding))
                       + 3 * found.rank[c.content]
        /\ \A a, b \in DOMAIN found.rows :
              a < b => found.rows[a].similarity >= found.rows[b].similarity

\* two rows of different scores, the first 0.71 from distance 0.2 and rank
\* 0.5, while a chunk of similarity 1.0 that does not match is left out
C9_Reached ==
    /\ found.mode = "hybrid"
    /\ Len(found.rows) = 2
    /\ found.rows[1].similarity = 355
    /\ found.rows[2].similarity < 355
    /\ \E c \in chunks :
          /\ c.embedding = found.embedding
          /\ ~LexicalMatch(c.content, found.keyword)
          /\ \A k \in DOMAIN found.rows : found.rows[k].chunk_index # c.chunk_index

\* C10: semanticSearch returns at most limit rows, each of a chunk that has an
\* embedding and, with a role filter, that role, with similarity
\* 1 - cosine distance, in ascending order of the distance; no search returns
\* a chunk stored without an embedding.
C10_SemanticSearch ==
    /\ found.mode = "semantic" =>
          /\ Len(found.rows) <= found.limit
          /\ \A k \in DOMAIN found.rows :
                \E c \in chunks :
                   /\ c.session_id = found.rows[k].session_id
                   /\ c.chunk_index = found.rows[k].chunk_index
                   /\ c.role = found.rows[k].role
                   /\ c.embedding # NoVector
                   /\ found.roleFilter # "" => c.role = found.roleFilter
                   /\ found.rows[k].similarity = 50 - Distance(c.embedding, found.embedding)
          /\ \A a, b \in DOMAIN found.rows :
                a < b => 50 - found.rows[a].similarity <= 50 - found.rows[b].similarity
    /\ \A c \in chunks :
          c.embedding = NoVector =>
              \A k \in DOMAIN found.rows :
                 ~(/\ c.session_id = found.rows[k].session_id
                   /\ c.chunk_index = found.rows[k].chunk_index)

\* a search by role that returns two rows at different distances from a
\* store that also holds a chunk of that role without an embedding
C10_Reached ==
    /\ found.mode = "semantic"
    /\ found.roleFilter # ""
    /\ Len(found.rows) = 2
    /\ found.rows[1].similarity > found.rows[2].similarity
    /\ \E c \in chunks : c.embedding = NoVector /\ c.role = found.roleFilter

\* C11: every chunk parseSessionFile emits has a text of at least ten
\* characters, and the length filter applied to an emitted chunk keeps it.
C11_TextAtLeastTen ==
    parsed.result.ok =>
        \A k \in DOMAIN parsed.result.messages :
            /\ Len(parsed.result.messages[k].content) >= 10
            /\ ~TooShort(Str(parsed.result.messages[k].content))

\* a text of nine characters dropped between two retained records, one of
\* them of exactly ten characters
C11_Reached ==
    /\ parsed.result.ok
    /\ Len(transcript) = 3
    /\ transcript[2] = Message("user", 1, Str(TxtShort))
    /\ Len(parsed.result.messages) = 2
    /\ Len(parsed.result.messages[1].content) = 10

Noise(line) ==
    /\ line.json = "object"
    /\ \/ line.type = "tool_use"
       \/ line.type = "tool_result" /\ ~Truthy(line.output) /\ ~Truthy(line.preview)
       \/ line.type \notin {"user", "assistant", "tool_use", "tool_result"}

\* C13: no tool invocation, empty tool result or record of an unknown tag
\* yields a chunk: the chunks of a file are those of the file without these
\* records, and every chunk has role user, assistant or tool.
C13_NoiseDropped ==
    LET clean == parseSessionFile(Path("d1", "s1"), SelectSeq(transcript, LAMBDA l : ~Noise(l)))
        Chunks(session) == IF session.ok THEN session.messages ELSE <<>>
    IN  parsed.called =>
            /\ Chunks(parsed.result) = Chunks(clean)
            /\ \A k \in DOMAIN Chunks(parsed.result) :
                  Chunks(parsed.result)[k].role \in {"user", "assistant", "tool"}

\* C14: the references of a chunk hold each matched path once, in the order
\* in which the paths first appear in the text of the chunk.
C14_FirstSeenOrder ==
    LET FirstAt(s, path) == Min({p \in 1..Len(s) : StartsWithAt(s, p, path)})
    IN  parsed.result.ok =>
            \A k \in DOMAIN parsed.result.messages :
                LET files == parsed.result.messages[k].filesMentioned
                    content == parsed.result.messages[k].content
                IN  \A a, b \in DOMAIN files :
                        a < b => /\ files[a] # files[b]
                                 /\ FirstAt(content, files[a]) < FirstAt(content, files[b])

C19_MalformedLinesIgnored ==
    parsed.called =>
        parsed.result =
            parseSessionFile(Path("d1", "s1"), SelectSeq(transcript, LAMBDA l : l # MalformedLine))

\* a malformed line between two retained records of different times
C19_Reached ==
    /\ parsed.result.ok
    /\ Len(transcript) = 3
    /\ transcript[1] # MalformedLine
    /\ transcript[2] = MalformedLine
    /\ transcript[3] # MalformedLine
    /\ Len(parsed.result.messages) = 2
    /\ parsed.result.createdAt = parsed.result.messages[1].timestamp
    /\ parsed.result.updatedAt = parsed.result.messages[2].timestamp
    /\ parsed.result.createdAt # 0
    /\ parsed.result.createdAt < parsed.result.updatedAt

\* the chunks parseSessionFile retains of the lines of a file
Retained(file) ==
    IF ~file.exists THEN <<>>
    ELSE ParseLines(SelectSeq(file.lines, NonBlank), 1,
                    [messages |-> <<>>, firstTimestamp |-> 0, lastTimestamp |-> 0]).messages

\* C16: parseSessionFile rejects exactly the files that yield no retained
\* chunk, so that an accepted session has at least one chunk; when the file an
\* ingest run comes to is one of these, the run counts it as skipped and goes
\* to the next file without a storage call and without an embedding request.
C16_EmptyFileSkipped ==
    /\ [](run.session # Null => Len(run.session.messages) >= 1)
    /\ [][(run.pc = "loop" /\ run.k <= Len(run.files) /\ run' # run) =>
            LET file == run.files[run.k]
                none == Len(Retained(disk[file])) = 0
            IN  /\ disk[file].exists =>
                      (parseSessionFile(file, disk[file].lines) = Null <=> none)
                /\ ~none => run'.session = parseSessionFile(file, disk[file].lines)
                /\ none =>
                      /\ run' = [run EXCEPT !.k = @ + 1, !.skipped = @ + 1]
                      /\ log' = Append(log, [file |-> file, outcome |-> "skipped",
                                             wroteSession |-> FALSE, wroteChunks |-> FALSE])
                      /\ requests' \subseteq requests
                      /\ UNCHANGED <<sessions, chunks, pool, batch, history>>]_vars

\* a run has skipped a file of blank lines, then a file of malformed lines,
\* and has written nothing
C16_Reached ==
    /\ run.pc = "loop"
    /\ run.k = 3
    /\ run.skipped = 2
    /\ disk[run.files[1]] = File(<<BlankLine>>)
    /\ disk[run.files[2]] = File(<<MalformedLine, MalformedLine>>)
    /\ log[1].outcome = "skipped" /\ log[2].outcome = "skipped"
    /\ sessions = {} /\ chunks = {} /\ requests = {} /\ ~pool

\* C20: with embedding enabled, insertChunks is called for a file only once
\* every embedding request of its chunks has been answered with a vector, each
\* chunk then carrying the vector of its own request; when a request of the
\* file has failed the file is skipped and no chunk is written for it.
C20_NoChunkWithoutEmbedding ==
    /\ [](run.pc = "insertChunks" /\ run.embed =>
            \A k \in DOMAIN run.chunks : run.chunks[k].embedding \in Embeddings)
    /\ [][(run.pc = "embedBatch" /\ run' # run) =>
            IF history.failed = {}
            THEN /\ \A k \in DOMAIN run.chunks : history.obtained[k] \in Embeddings
                 /\ run'.pc = "insertChunks"
                 /\ \A k \in DOMAIN run.chunks :
                       run'.chunks[k].embedding = history.obtained[k]
            ELSE /\ run' = [run EXCEPT !.k = @ + 1, !.skipped = @ + 1, !.pc = "loop",
                                       !.session = Null, !.sessionDbId = 0, !.chunks = <<>>]
                 /\ chunks' = chunks]_vars
    /\ [][chunks' # chunks =>
            /\ run.pc = "insertChunks"
            /\ run.embed =>
                  \A c \in chunks' \ chunks :
                      c.session_id = run.sessionDbId /\ c.embedding \in Embeddings]_vars

\* the chunks of a second file are about to be written with their vectors
\* while a request of the first file, whose embedding failed, is outstanding
C20_Reached ==
    /\ run.pc = "insertChunks"
    /\ run.embed
    /\ Len(run.chunks) = 2
    /\ Len(log) = 2
    /\ log[1].outcome = "skipped" /\ log[1].wroteSession /\ ~log[1].wroteChunks
    /\ requests # {}
    /\ chunks = {}

\* C17: when a command (ingest, search, stats) has ended, normally or after
\* an embedding or storage call of it has failed, the pool it has made is
\* closed.
C17_PoolReleased == Ended(run) => ~pool

\* C18: when checkOllama answers that the service is not ready to ingest
\* with embedding or to search, the command calls process.exit(1) with
\* nothing done: no file parsed, no embedding requested, no statement sent,
\* no pool made.
C18_FailFast ==
    /\ [](run.health = "down" =>
            /\ run.command \in {"ingest", "search"}
            /\ run.pc = "exit"
            /\ run.exitCode = 1
            /\ run.k = 1 /\ run.session = Null /\ log = <<>>
            /\ batch = NoBatch
            /\ found = NoSearch)
    /\ [][run'.health = "down" /\ run' # run =>
            /\ requests' = requests
            /\ UNCHANGED <<sessions, chunks, pool, batch, history>>]_vars
    /\ [][run.health = "down" /\ run' # run => run'.n = run.n + 1]_vars

\* ingest with embedding has found the service down while a file it would
\* have stored is there
C18_Reached ==
    /\ run.command = "ingest"
    /\ run.embed
    /\ run.health = "down"
    /\ run.pc = "exit"
    /\ \E p \in Paths : Len(Retained(disk[p])) = 2
    /\ sessions = {}

\* C21: during an ingest run at most the concurrency bound of embedding
\* requests are outstanding, all of them of the file whose embedding phase is
\* under way; none is left of an earlier file when the next file begins, also
\* when the embedding phase of the earlier file has failed.
C21_RequestsOfCurrentFileOnly ==
    run.command = "ingest" /\ run.pc \in {"loop", "upsertSession", "embedBatch", "insertChunks"} =>
        /\ Cardinality(requests) <= DefaultConcurrency
        /\ run.pc = "embedBatch" => \A r \in requests : r.call = batch.call
        /\ run.pc \in {"upsertSession", "insertChunks"} => requests = {}
        /\ run.pc = "loop" /\ run.k <= Len(run.files) => requests = {}

====
